---- MODULE Spec2Model ----
(***************************************************************************)
(* The two secret-upload scripts of the repository:                        *)
(*   "push"   = push_secrets_to_hf.py  (calls the remote 'set secret' API)  *)
(*   "upload" = upload_secrets.py      (prints copy-paste instructions)     *)
(* A Python string is a sequence of one-character strings, a dict is the   *)
(* sequence of its <<key, value>> items in insertion order.                *)
(***************************************************************************)
EXTENDS Integers, Sequences, FiniteSets

\* ------------------------------------------------------------ bounds
\* longest input file, in lines
MaxLines == 3
\* longest input file when both scripts are run on it
MaxPairLines == 2
\* longest raw value of the quote-stripping specification
MaxRawLen == 4

\* ------------------------------------------------------- str helpers
Variants == {"push", "upload"}

\* printable ASCII in code-point order, from 32 (space) to 95 (_)
AsciiLow ==
  <<" ", "!", "\"", "#", "$", "%", "&", "'", "(", ")", "*", "+", ",", "-", ".", "/",
    "0", "1", "2", "3", "4", "5", "6", "7", "8", "9", ":", ";", "<", "=", ">", "?",
    "@", "A", "B", "C", "D", "E", "F", "G", "H", "I", "J", "K", "L", "M", "N", "O",
    "P", "Q", "R", "S", "T", "U", "V", "W", "X", "Y", "Z", "[", "\\", "]", "^", "_">>

\* printable ASCII in code-point order, from 97 (a) to 126 (~)
AsciiHigh ==
  <<"a", "b", "c", "d", "e", "f", "g", "h", "i", "j", "k", "l", "m", "n", "o",
    "p", "q", "r", "s", "t", "u", "v", "w", "x", "y", "z", "{", "|", "}", "~">>

\* ord(c)
Ord(c) ==
  CASE c = "\t" -> 9
    [] c = "\n" -> 10
    [] c = "\r" -> 13
    [] \E i \in 1..Len(AsciiLow) : AsciiLow[i] = c ->
         31 + (CHOOSE i \in 1..Len(AsciiLow) : AsciiLow[i] = c)
    [] OTHER -> 96 + (CHOOSE i \in 1..Len(AsciiHigh) : AsciiHigh[i] = c)

\* the characters str.strip() with no argument removes
Whitespace == {" ", "\t", "\n", "\r"}

Min(a, b) == IF a < b THEN a ELSE b

\* s[:n]
Take(s, n) == SubSeq(s, 1, Min(n, Len(s)))

\* s[-n:]  (n > 0)
LastN(s, n) == SubSeq(s, Len(s) - Min(n, Len(s)) + 1, Len(s))

\* s.startswith(p)
StartsWith(s, p) == Len(s) >= Len(p) /\ SubSeq(s, 1, Len(p)) = p

\* c in s
Contains(s, c) == \E i \in 1..Len(s) : s[i] = c

RECURSIVE LStrip(_, _)
\* s.lstrip(chars)
LStrip(s, chars) ==
  IF s # <<>> /\ Head(s) \in chars THEN LStrip(Tail(s), chars) ELSE s

RECURSIVE RStrip(_, _)
\* s.rstrip(chars)
RStrip(s, chars) ==
  IF s # <<>> /\ s[Len(s)] \in chars THEN RStrip(SubSeq(s, 1, Len(s) - 1), chars) ELSE s

\* s.strip(chars): every leading and every trailing character in chars
StrStrip(s, chars) == RStrip(LStrip(s, chars), chars)

\* s.find(c) + 1, for c in s
IndexOf(s, c) == CHOOSE i \in 1..Len(s) : s[i] = c /\ \A j \in 1..(i - 1) : s[j] # c

\* s.split(c, 1), for c in s
SplitFirst(s, c) ==
  <<SubSeq(s, 1, IndexOf(s, c) - 1), SubSeq(s, IndexOf(s, c) + 1, Len(s))>>

RECURSIVE StrLess(_, _)
\* a < b on str: lexicographic by code point
StrLess(a, b) ==
  IF b = <<>> THEN FALSE
  ELSE IF a = <<>> THEN TRUE
  ELSE IF Head(a) # Head(b) THEN Ord(Head(a)) < Ord(Head(b))
  ELSE StrLess(Tail(a), Tail(b))

\* ------------------------------------------------------ dict helpers
\* key in d
HasKey(d, k) == \E i \in 1..Len(d) : d[i][1] = k

\* d[k], for k in d
Get(d, k) == d[CHOOSE i \in 1..Len(d) : d[i][1] = k][2]

\* faulty variant of DictSet: an existing key keeps its first value
DictSetKeepsFirst(d, k, v) == IF HasKey(d, k) THEN d ELSE Append(d, <<k, v>>)

\* d[k] = v: an existing key keeps its position, a new key is appended
DictSet(d, k, v) ==
  IF HasKey(d, k)
  THEN [i \in 1..Len(d) |-> IF d[i][1] = k THEN <<k, v>> ELSE d[i]]
  ELSE Append(d, <<k, v>>)

\* (k1, v1) < (k2, v2) on tuples of str
ItemLess(x, y) == StrLess(x[1], y[1]) \/ (x[1] = y[1] /\ StrLess(x[2], y[2]))

RECURSIVE Insert(_, _)
Insert(sorted, x) ==
  IF sorted = <<>> THEN <<x>>
  ELSE IF ItemLess(x, Head(sorted)) THEN <<x>> \o sorted
  ELSE <<Head(sorted)>> \o Insert(Tail(sorted), x)

\* faulty variant of Sorted: the items in insertion order
Unsorted(d) == d

RECURSIVE Sorted(_)
\* sorted(d.items())
Sorted(d) == IF d = <<>> THEN <<>> ELSE Insert(Sorted(SubSeq(d, 1, Len(d) - 1)), d[Len(d)])

\* ------------------------------------------------------ configuration
\* important_keys of push_secrets_to_hf.py
ImportantKeysPush ==
  << <<"J", "W", "T", "_", "S", "E", "C", "R", "E", "T">> >>

\* important_keys of upload_secrets.py
ImportantKeysUpload ==
  << <<"D", "A", "T", "A", "B", "A", "S", "E", "_", "U", "R", "L">>,
     <<"J", "W", "T", "_", "S", "E", "C", "R", "E", "T">>,
     <<"N", "O", "D", "E", "_", "E", "N", "V">>,
     <<"C", "L", "E", "R", "K", "_", "P", "U", "B", "L", "I", "S", "H", "A", "B", "L", "E", "_", "K", "E", "Y">>,
     <<"C", "L", "E", "R", "K", "_", "S", "E", "C", "R", "E", "T", "_", "K", "E", "Y">>,
     <<"D", "E", "F", "A", "U", "L", "T", "_", "M", "O", "D", "E", "L">>,
     <<"M", "A", "X", "_", "C", "O", "N", "T", "E", "X", "T", "_", "M", "E", "S", "S", "A", "G", "E", "S">>,
     <<"M", "A", "X", "_", "T", "O", "K", "E", "N", "S">> >>

\* faulty variant of important_keys: both scripts use the list of upload_secrets.py
ImportantKeysShared(v) == ImportantKeysUpload

\* important_keys of each script
important_keys(v) == IF v = "push" THEN ImportantKeysPush ELSE ImportantKeysUpload

\* api_prefixes (the same list in both scripts)
api_prefixes ==
  << <<"G", "R", "O", "Q", "_", "A", "P", "I", "_", "K", "E", "Y">>,
     <<"D", "E", "E", "P", "S", "E", "E", "K", "_", "A", "P", "I", "_", "K", "E", "Y">>,
     <<"O", "P", "E", "N", "R", "O", "U", "T", "E", "R", "_", "A", "P", "I", "_", "K", "E", "Y">>,
     <<"H", "U", "G", "G", "I", "N", "G", "F", "A", "C", "E", "_", "A", "P", "I", "_", "K", "E", "Y">>,
     <<"G", "E", "M", "I", "N", "I", "_", "A", "P", "I", "_", "K", "E", "Y">>,
     <<"O", "C", "R", "_", "S", "P", "A", "C", "E", "_", "A", "P", "I", "_", "K", "E", "Y">>,
     <<"B", "R", "A", "V", "E", "_", "S", "E", "A", "R", "C", "H", "_", "K", "E", "Y">>,
     <<"S", "E", "R", "P", "A", "P", "I", "_", "K", "E", "Y">>,
     <<"E", "L", "E", "V", "E", "N", "L", "A", "B", "S", "_", "A", "P", "I", "_", "K", "E", "Y">> >>

\* ------------------------------------------------------------ parsing
\* faulty variant of StripQuotes: one layer of matching quotes only
StripOneMatchingLayer(value) ==
  IF Len(value) >= 2 /\ value[1] = value[Len(value)] /\ value[1] \in {"\"", "'"}
  THEN SubSeq(value, 2, Len(value) - 1)
  ELSE value

\* value.strip('"').strip("'")
StripQuotes(value) == StrStrip(StrStrip(value, {"\""}), {"'"})

\* faulty variant of PassesPlaceholderFilter: the sk_test check is missing
PassesWithoutSkTestCheck(value) == value # <<>> /\ ~StartsWith(value, <<"y", "o", "u", "r">>)

\* value and not value.startswith('your') and not value.startswith('sk_test')
PassesPlaceholderFilter(value) ==
  /\ value # <<>>
  /\ ~StartsWith(value, <<"y", "o", "u", "r">>)
  /\ ~StartsWith(value, <<"s", "k", "_", "t", "e", "s", "t">>)

\* line and not line.startswith('#') and '=' in line, for the stripped line
IsEntryLine(line) == line # <<>> /\ ~StartsWith(line, <<"#">>) /\ Contains(line, "=")

\* one iteration of the parse loop: secrets after the line
ParseLine(d, rawline) ==
  LET line == StrStrip(rawline, Whitespace) IN
  IF IsEntryLine(line)
  THEN LET kv == SplitFirst(line, "=")
           value == StripQuotes(kv[2])
       IN IF PassesPlaceholderFilter(value) THEN DictSet(d, kv[1], value) ELSE d
  ELSE d

\* ---------------------------------------------------------- filtering
\* key in important_keys
IsImportant(v, key) == \E i \in 1..Len(important_keys(v)) : important_keys(v)[i] = key

\* the inner for loop: some prefix in api_prefixes has key.startswith(prefix)
HasApiPrefix(key) == \E i \in 1..Len(api_prefixes) : StartsWith(key, api_prefixes[i])

\* faulty variant of FilterItem: the prefix loop is missing
FilterItemImportantOnly(v, fs, item) ==
  IF IsImportant(v, item[1]) THEN DictSet(fs, item[1], item[2]) ELSE fs

\* one iteration of the filter loop: filtered_secrets after the item
FilterItem(v, fs, item) ==
  IF IsImportant(v, item[1]) THEN DictSet(fs, item[1], item[2])
  ELSE IF HasApiPrefix(item[1]) THEN DictSet(fs, item[1], item[2])
  ELSE fs

\* ------------------------------------------------------------ masking
Dots == <<".", ".", ".">>

\* faulty variant of MaskedPush: the thresholds of upload_secrets.py
MaskedPushWithUploadThresholds(value) ==
  IF Len(value) > 16 THEN Take(value, 8) \o Dots \o LastN(value, 4)
  ELSE Take(value, 4) \o Dots

\* push: value[:6] + '...' + value[-4:] if len(value) > 14 else value[:4] + '...'
MaskedPush(value) ==
  IF Len(value) > 14 THEN Take(value, 6) \o Dots \o LastN(value, 4)
  ELSE Take(value, 4) \o Dots

\* upload: val[:8] + '...' + val[-4:] if len(val) > 16 else val[:4] + '...'
MaskedUpload(val) ==
  IF Len(val) > 16 THEN Take(val, 8) \o Dots \o LastN(val, 4)
  ELSE Take(val, 4) \o Dots

\* ------------------------------------------------------------- inputs
\* the lines an input file is made of (the last one ends the file without a newline)
LineGroq ==
  <<"G", "R", "O", "Q", "_", "A", "P", "I", "_", "K", "E", "Y", "_", "1", "=", "\"", "s", "k", "_", "l", "i", "v", "e", "_", "a", "b", "c", "1", "2", "3", "x", "y", "z", "7", "8", "9", "\"", "\n">>
LineJwtYour ==
  <<"J", "W", "T", "_", "S", "E", "C", "R", "E", "T", "=", "y", "o", "u", "r", "-", "s", "e", "c", "r", "e", "t", "-", "h", "e", "r", "e", "\n">>
LineJwtShort ==
  <<"J", "W", "T", "_", "S", "E", "C", "R", "E", "T", "=", "'", "a", "b", "c", "d", "'", "\n">>
LineJwtOther ==
  <<"J", "W", "T", "_", "S", "E", "C", "R", "E", "T", "=", "s", "3", "c", "r", "3", "t", "\n">>
LineRandom ==
  <<"R", "A", "N", "D", "O", "M", "_", "V", "A", "R", "=", "h", "e", "l", "l", "o", "\n">>
LineNodeEnv ==
  <<"N", "O", "D", "E", "_", "E", "N", "V", "=", "p", "r", "o", "d", "\n">>
LineComment ==
  <<"#", "J", "W", "T", "_", "S", "E", "C", "R", "E", "T", "=", "x", "\n">>
LineSkTest ==
  <<"D", "E", "E", "P", "S", "E", "E", "K", "_", "A", "P", "I", "_", "K", "E", "Y", "=", "s", "k", "_", "t", "e", "s", "t", "_", "1", "\n">>
LineEmpty ==
  <<"J", "W", "T", "_", "S", "E", "C", "R", "E", "T", "=", "\"", "\"", "\n">>
LineBrave ==
  <<" ", "B", "R", "A", "V", "E", "_", "S", "E", "A", "R", "C", "H", "_", "K", "E", "Y", "=", "a", "=", "b">>

InputLines ==
  {LineGroq,
   LineJwtYour,
   LineJwtShort,
   LineJwtOther,
   LineRandom,
   LineNodeEnv,
   LineComment,
   LineSkTest,
   LineEmpty,
   LineBrave}

\* the raw values of the quote-stripping runs: every str over these characters
RawChars == {"\"", "'", "a"}

SeqsUpTo(S, n) == UNION { [1..k -> S] : k \in 0..n }

\* an optional value: None is <<>>, a str s is <<s>>
None == <<>>
Some(s) == <<s>>
\* bool(x) of an optional str
Truthy(x) == x # None /\ x[1] # <<>>

\* os.environ.get('HF_TOKEN'): unset, set to the empty string, set to a token
EnvValues == { None, Some(<<>>), Some(<<"h", "f", "_", "e", "n", "v">>) }

\* what the user types at the prompt
PromptInputs == { <<>>, <<" ", " ">>, <<" ", "h", "f", "_", "i", "n", " ">> }

\* str(e) of the exception a failed call raises (the second is longer than 50)
Errors ==
  { <<"4", "0", "1", " ", "U", "n", "a", "u", "t", "h", "o", "r", "i", "z", "e", "d">>,
    <<"H", "T", "T", "P", "S", "C", "o", "n", "n", "e", "c", "t", "i", "o", "n", "P", "o", "o", "l", "(", "h", "o", "s", "t", "=", "'", "h", "u", "g", "g", "i", "n", "g", "f", "a", "c", "e", ".", "c", "o", "'", ",", " ", "p", "o", "r", "t", "=", "4", "4", "3", ")", ":", " ", "M", "a", "x", " ", "r", "e", "t", "r", "i", "e", "s", " ", "e", "x", "c", "e", "e", "d", "e", "d">> }

\* -------------------------------------------------------------- state
VARIABLES
  env_file,          \* the lines of the .env file, in file order
  pc,                \* [script -> its position]; "off": the script is not run
  idx,               \* [script -> index of the current loop's next element]
  secrets,           \* [script -> its secrets dict]
  filtered_secrets,  \* [script -> its filtered_secrets dict]
  items,             \* [script -> the sorted items its current loop walks]
  hf_token,          \* push: hf_token, None before it is read
  success_count,     \* push: success_count
  fail_count,        \* push: fail_count
  calls,             \* the add_space_secret calls made so far, with their outcome
  stdout,            \* [script -> the lines it printed, as <<tag, key, text>>]
  status             \* [script -> exit status, -1 while it runs]

vars ==
  <<env_file, pc, idx, secrets, filtered_secrets, items, hf_token,
    success_count, fail_count, calls, stdout, status>>

Start(file, running) ==
  /\ env_file = file
  /\ pc = [v \in Variants |-> IF v \in running THEN "parse" ELSE "off"]
  /\ idx = [v \in Variants |-> 1]
  /\ secrets = [v \in Variants |-> <<>>]
  /\ filtered_secrets = [v \in Variants |-> <<>>]
  /\ items = [v \in Variants |-> <<>>]
  /\ hf_token = None
  /\ success_count = 0
  /\ fail_count = 0
  /\ calls = <<>>
  /\ stdout = [v \in Variants |-> <<>>]
  /\ status = [v \in Variants |-> -1]

\* one script is run on one input file
Init ==
  \E file \in SeqsUpTo(InputLines, MaxLines) : \E v \in Variants : Start(file, {v})

\* one script is run on a one-line file JWT_SECRET=<raw value>
RawLine(raw) == <<"J", "W", "T", "_", "S", "E", "C", "R", "E", "T", "=">> \o raw \o <<"\n">>

InitStrip ==
  \E raw \in SeqsUpTo(RawChars, MaxRawLen) : \E v \in Variants :
    Start(<<RawLine(raw)>>, {v})

\* both scripts are run on the same input file
InitBoth ==
  \E file \in SeqsUpTo(InputLines, MaxPairLines) : Start(file, Variants)

Emit(v, line) == stdout' = [stdout EXCEPT ![v] = Append(@, line)]

\* ------------------------------------------------- both scripts: parse
\* one iteration of "for line in f"
ReadLine(v) ==
  /\ pc[v] = "parse"
  /\ idx[v] <= Len(env_file)
  /\ secrets' = [secrets EXCEPT ![v] = ParseLine(@, env_file[idx[v]])]
  /\ idx' = [idx EXCEPT ![v] = @ + 1]
  /\ UNCHANGED <<env_file, pc, filtered_secrets, items, hf_token,
                 success_count, fail_count, calls, stdout, status>>

\* end of file: the with block is left and the filter loop begins
EndParse(v) ==
  /\ pc[v] = "parse"
  /\ idx[v] > Len(env_file)
  /\ pc' = [pc EXCEPT ![v] = "filter"]
  /\ idx' = [idx EXCEPT ![v] = 1]
  /\ UNCHANGED <<env_file, secrets, filtered_secrets, items, hf_token,
                 success_count, fail_count, calls, stdout, status>>

\* one iteration of "for key, value in secrets.items()"
FilterStep(v) ==
  /\ pc[v] = "filter"
  /\ idx[v] <= Len(secrets[v])
  /\ filtered_secrets' =
       [filtered_secrets EXCEPT ![v] = FilterItem(v, @, secrets[v][idx[v]])]
  /\ idx' = [idx EXCEPT ![v] = @ + 1]
  /\ UNCHANGED <<env_file, pc, secrets, items, hf_token,
                 success_count, fail_count, calls, stdout, status>>

\* ------------------------------------------------------ push: token
\* the filter loop ends; "Found n secrets"; hf_token = os.environ.get('HF_TOKEN')
GetToken ==
  /\ pc["push"] = "filter"
  /\ idx["push"] > Len(secrets["push"])
  /\ \E e \in EnvValues :
       /\ hf_token' = e
       /\ pc' = [pc EXCEPT !["push"] = IF Truthy(e) THEN "check" ELSE "prompt"]
  /\ Emit("push", <<"found", <<>>, Len(filtered_secrets["push"])>>)
  /\ UNCHANGED <<env_file, idx, secrets, filtered_secrets, items,
                 success_count, fail_count, calls, status>>

\* hf_token = input(...).strip()
PromptToken ==
  /\ pc["push"] = "prompt"
  /\ \E typed \in PromptInputs : hf_token' = Some(StrStrip(typed, Whitespace))
  /\ pc' = [pc EXCEPT !["push"] = "check"]
  /\ Emit("push", <<"prompt", <<>>, <<>>>>)
  /\ UNCHANGED <<env_file, idx, secrets, filtered_secrets, items,
                 success_count, fail_count, calls, status>>

\* faulty variant of ExitNoToken: the message is printed but sys.exit(1) is missing
NoTokenFallsThrough ==
  /\ pc["push"] = "check"
  /\ ~Truthy(hf_token)
  /\ pc' = [pc EXCEPT !["push"] = "upload"]
  /\ items' = [items EXCEPT !["push"] = Sorted(filtered_secrets["push"])]
  /\ idx' = [idx EXCEPT !["push"] = 1]
  /\ Emit("push", <<"notoken", <<>>, <<>>>>)
  /\ UNCHANGED <<env_file, secrets, filtered_secrets, hf_token,
                 success_count, fail_count, calls, status>>

\* if not hf_token: sys.exit(1)
ExitNoToken ==
  /\ pc["push"] = "check"
  /\ ~Truthy(hf_token)
  /\ pc' = [pc EXCEPT !["push"] = "exit"]
  /\ status' = [status EXCEPT !["push"] = 1]
  /\ Emit("push", <<"notoken", <<>>, <<>>>>)
  /\ UNCHANGED <<env_file, idx, secrets, filtered_secrets, items, hf_token,
                 success_count, fail_count, calls>>

\* api = HfApi(token=hf_token); the counters; sorted(filtered_secrets.items())
InitApi ==
  /\ pc["push"] = "check"
  /\ Truthy(hf_token)
  /\ pc' = [pc EXCEPT !["push"] = "upload"]
  /\ items' = [items EXCEPT !["push"] = Sorted(filtered_secrets["push"])]
  /\ idx' = [idx EXCEPT !["push"] = 1]
  /\ success_count' = 0
  /\ fail_count' = 0
  /\ UNCHANGED <<env_file, secrets, filtered_secrets, hf_token, calls, stdout, status>>

\* ----------------------------------------------------- push: upload
\* the call a loop iteration makes, as the remote side sees it
Call(item) ==
  [key |-> item[1], value |-> item[2], token |-> hf_token, outcome |-> "pending"]

\* the outcome of the last call, which is the one in flight
Settle(cs, outcome) == [cs EXCEPT ![Len(cs)].outcome = outcome]

\* a loop iteration begins: api.add_space_secret(repo_id, key, value) is sent
IssueCall ==
  /\ pc["push"] = "upload"
  /\ idx["push"] <= Len(items["push"])
  /\ calls' = Append(calls, Call(items["push"][idx["push"]]))
  /\ pc' = [pc EXCEPT !["push"] = "calling"]
  /\ UNCHANGED <<env_file, idx, secrets, filtered_secrets, items, hf_token,
                 success_count, fail_count, stdout, status>>

\* the call returns: the masked confirmation, success_count += 1
CallReturns ==
  /\ pc["push"] = "calling"
  /\ calls' = Settle(calls, "ok")
  /\ LET item == items["push"][idx["push"]]
     IN Emit("push", <<"ok", item[1], MaskedPush(item[2])>>)
  /\ success_count' = success_count + 1
  /\ idx' = [idx EXCEPT !["push"] = @ + 1]
  /\ pc' = [pc EXCEPT !["push"] = "upload"]
  /\ UNCHANGED <<env_file, secrets, filtered_secrets, items, hf_token,
                 fail_count, status>>

\* faulty variant of CallRaises: the exception is not caught and ends the script
CallRaisesUncaught ==
  /\ pc["push"] = "calling"
  /\ calls' = Settle(calls, "failed")
  /\ pc' = [pc EXCEPT !["push"] = "exit"]
  /\ status' = [status EXCEPT !["push"] = 1]
  /\ UNCHANGED <<env_file, idx, secrets, filtered_secrets, items, hf_token,
                 success_count, fail_count, stdout>>

\* the call raises e: except Exception prints str(e)[:50], fail_count += 1
CallRaises ==
  /\ pc["push"] = "calling"
  /\ calls' = Settle(calls, "failed")
  /\ LET item == items["push"][idx["push"]]
     IN \E e \in Errors : Emit("push", <<"failed", item[1], Take(e, 50)>>)
  /\ fail_count' = fail_count + 1
  /\ idx' = [idx EXCEPT !["push"] = @ + 1]
  /\ pc' = [pc EXCEPT !["push"] = "upload"]
  /\ UNCHANGED <<env_file, secrets, filtered_secrets, items, hf_token,
                 success_count, status>>

\* the loop ends: the summary, and the restart reminder if success_count > 0
Summary ==
  /\ pc["push"] = "upload"
  /\ idx["push"] > Len(items["push"])
  /\ pc' = [pc EXCEPT !["push"] = "done"]
  /\ status' = [status EXCEPT !["push"] = 0]
  /\ stdout' = [stdout EXCEPT !["push"] =
       IF success_count > 0
       THEN @ \o << <<"summary", success_count, fail_count>>, <<"restart", <<>>, <<>>>> >>
       ELSE Append(@, <<"summary", success_count, fail_count>>)]
  /\ UNCHANGED <<env_file, idx, secrets, filtered_secrets, items, hf_token,
                 success_count, fail_count, calls>>

\* --------------------------------------------------- upload: printing
\* the filter loop ends; "Found n secrets to upload:"; sorted(filtered_secrets.keys())
BeginPreview ==
  /\ pc["upload"] = "filter"
  /\ idx["upload"] > Len(secrets["upload"])
  /\ pc' = [pc EXCEPT !["upload"] = "preview"]
  /\ items' = [items EXCEPT !["upload"] = Sorted(filtered_secrets["upload"])]
  /\ idx' = [idx EXCEPT !["upload"] = 1]
  /\ Emit("upload", <<"found", <<>>, Len(filtered_secrets["upload"])>>)
  /\ UNCHANGED <<env_file, secrets, filtered_secrets, hf_token,
                 success_count, fail_count, calls, status>>

\* one iteration of the first loop: "  - key: masked"
PrintMasked ==
  /\ pc["upload"] = "preview"
  /\ idx["upload"] <= Len(items["upload"])
  /\ LET key == items["upload"][idx["upload"]][1]
         val == Get(filtered_secrets["upload"], key)
     IN Emit("upload", <<"masked", key, MaskedUpload(val)>>)
  /\ idx' = [idx EXCEPT !["upload"] = @ + 1]
  /\ UNCHANGED <<env_file, pc, secrets, filtered_secrets, items, hf_token,
                 success_count, fail_count, calls, status>>

\* the first loop ends; the instructions header; sorted(filtered_secrets.keys())
PrintHeader ==
  /\ pc["upload"] = "preview"
  /\ idx["upload"] > Len(items["upload"])
  /\ pc' = [pc EXCEPT !["upload"] = "print"]
  /\ items' = [items EXCEPT !["upload"] = Sorted(filtered_secrets["upload"])]
  /\ idx' = [idx EXCEPT !["upload"] = 1]
  /\ Emit("upload", <<"header", <<>>, <<>>>>)
  /\ UNCHANGED <<env_file, secrets, filtered_secrets, hf_token,
                 success_count, fail_count, calls, status>>

\* one iteration of the second loop: "key=value"
PrintPlain ==
  /\ pc["upload"] = "print"
  /\ idx["upload"] <= Len(items["upload"])
  /\ LET key == items["upload"][idx["upload"]][1]
     IN Emit("upload", <<"plain", key, Get(filtered_secrets["upload"], key)>>)
  /\ idx' = [idx EXCEPT !["upload"] = @ + 1]
  /\ UNCHANGED <<env_file, pc, secrets, filtered_secrets, items, hf_token,
                 success_count, fail_count, calls, status>>

\* the second loop ends and the script with it
Finish ==
  /\ pc["upload"] = "print"
  /\ idx["upload"] > Len(items["upload"])
  /\ pc' = [pc EXCEPT !["upload"] = "done"]
  /\ status' = [status EXCEPT !["upload"] = 0]
  /\ UNCHANGED <<env_file, idx, secrets, filtered_secrets, items, hf_token,
                 success_count, fail_count, calls, stdout>>

Next ==
  \/ \E v \in Variants : ReadLine(v)
  \/ \E v \in Variants : EndParse(v)
  \/ \E v \in Variants : FilterStep(v)
  \/ GetToken
  \/ PromptToken
  \/ ExitNoToken
  \/ InitApi
  \/ IssueCall
  \/ CallReturns
  \/ CallRaises
  \/ Summary
  \/ BeginPreview
  \/ PrintMasked
  \/ PrintHeader
  \/ PrintPlain
  \/ Finish

Spec == Init /\ [][Next]_vars

SpecBoth == InitBoth /\ [][Next]_vars

SpecStrip == InitStrip /\ [][Next]_vars

\* ------------------------------------------------------------ claims
\* the items of a dict, as a set
ItemSet(d) == { d[i] : i \in 1..Len(d) }

\* the positions of the calls made for a key
CallsFor(key) == { i \in 1..Len(calls) : calls[i].key = key }

\* the calls with an outcome
CallsWith(outcome) == { i \in 1..Len(calls) : calls[i].outcome = outcome }

\* a token that is set and not the empty string
NonEmptyToken(t) == t # <<>> /\ t[1] # <<>>

\* the push script is past its token check and in (or after) the upload loop
Uploading == pc["push"] \in {"upload", "calling", "done"}

\* C1: in the push script a failed call never aborts the batch: the script
\* stops early only for want of a token; while it uploads the counters count
\* the calls that returned and the calls that raised; at the summary exactly
\* one call was made for each retained key and success_count + fail_count is
\* the number of retained keys, which is what the summary prints.
C1_FailureNeverAbortsBatch ==
  /\ pc["push"] = "exit" => ~NonEmptyToken(hf_token) /\ calls = <<>>
  /\ Uploading =>
       /\ success_count = Cardinality(CallsWith("ok"))
       /\ fail_count = Cardinality(CallsWith("failed"))
       /\ \A i \in 1..Len(calls) :
            <<calls[i].key, calls[i].value>> \in ItemSet(filtered_secrets["push"])
       /\ \A it \in ItemSet(filtered_secrets["push"]) : Cardinality(CallsFor(it[1])) <= 1
  /\ pc["push"] = "done" =>
       /\ status["push"] = 0
       /\ CallsWith("pending") = {}
       /\ \A it \in ItemSet(filtered_secrets["push"]) : Cardinality(CallsFor(it[1])) = 1
       /\ Len(calls) = Len(filtered_secrets["push"])
       /\ success_count + fail_count = Len(filtered_secrets["push"])
       /\ \E i \in 1..Len(stdout["push"]) :
            stdout["push"][i] = <<"summary", success_count, fail_count>>

\* C1 witness: the first of three calls raised, the two after it returned, and
\* the summary reports 2 secrets, 1 failed.
C1_Witness ==
  /\ pc["push"] = "done"
  /\ Len(calls) = 3
  /\ calls[1].outcome = "failed"
  /\ success_count = 2
  /\ fail_count = 1

\* C2: without a non-empty token (HF_TOKEN unset or empty, and nothing but
\* whitespace typed at the prompt) the push script exits with status 1 and
\* makes no call; every call that is ever made carries a non-empty token.
C2_NoTokenNoCalls ==
  /\ \A i \in 1..Len(calls) : NonEmptyToken(calls[i].token)
  /\ Uploading => NonEmptyToken(hf_token)
  /\ ~NonEmptyToken(hf_token) => calls = <<>>
  /\ pc["push"] = "check" /\ ~NonEmptyToken(hf_token) =>
       ENABLED ExitNoToken /\ ~ENABLED InitApi
  /\ pc["push"] = "exit" =>
       status["push"] = 1 /\ calls = <<>> /\ hf_token = Some(<<>>)

\* C2 witness: the script has exited with status 1 although it had secrets to
\* upload, and no call was made.
C2_Witness ==
  /\ pc["push"] = "exit"
  /\ status["push"] = 1
  /\ filtered_secrets["push"] # <<>>
  /\ calls = <<>>

\* C3: the calls are made one after another in ascending key order: every
\* call before the last one has completed, and its key is smaller than the
\* key of every later call.
C3_CallsSequentialAscending ==
  \A i, j \in 1..Len(calls) :
    i < j => calls[i].outcome # "pending" /\ StrLess(calls[i].key, calls[j].key)

\* C3 witness: two calls were made and the key called second was the first
\* one in file order.
C3_Witness ==
  /\ Len(calls) = 2
  /\ Len(filtered_secrets["push"]) = 2
  /\ calls[2].key = filtered_secrets["push"][1][1]
  /\ calls[1].key = filtered_secrets["push"][2][1]

\* the script has been run and its filter loop has ended
Filtered(v) == pc[v] \notin {"off", "parse", "filter"}

\* the keys only upload_secrets.py lists as important
UploadOnlyKeys ==
  { <<"D", "A", "T", "A", "B", "A", "S", "E", "_", "U", "R", "L">>,
    <<"N", "O", "D", "E", "_", "E", "N", "V">>,
    <<"C", "L", "E", "R", "K", "_", "P", "U", "B", "L", "I", "S", "H", "A", "B", "L", "E", "_", "K", "E", "Y">>,
    <<"C", "L", "E", "R", "K", "_", "S", "E", "C", "R", "E", "T", "_", "K", "E", "Y">>,
    <<"D", "E", "F", "A", "U", "L", "T", "_", "M", "O", "D", "E", "L">>,
    <<"M", "A", "X", "_", "C", "O", "N", "T", "E", "X", "T", "_", "M", "E", "S", "S", "A", "G", "E", "S">>,
    <<"M", "A", "X", "_", "T", "O", "K", "E", "N", "S">> }

\* C4 as stated: run on the same file, the two scripts retain the same set of
\* key-value records.
C4_SameRetainedSet ==
  Filtered("push") /\ Filtered("upload") =>
    ItemSet(filtered_secrets["push"]) = ItemSet(filtered_secrets["upload"])

\* C4 amended: run on the same file, the two scripts parse the same records,
\* and the push script retains the records the upload script retains except
\* those whose key is DATABASE_URL, NODE_ENV, CLERK_PUBLISHABLE_KEY,
\* CLERK_SECRET_KEY, DEFAULT_MODEL, MAX_CONTEXT_MESSAGES or MAX_TOKENS.
C4_SameRetainedSetButUploadOnlyKeys ==
  /\ pc["push"] \notin {"off", "parse"} /\ pc["upload"] \notin {"off", "parse"} =>
       secrets["push"] = secrets["upload"]
  /\ Filtered("push") /\ Filtered("upload") =>
       ItemSet(filtered_secrets["push"]) =
         { it \in ItemSet(filtered_secrets["upload"]) : it[1] \notin UploadOnlyKeys }

\* C4 witness: both scripts have filtered a file with NODE_ENV, which only the
\* upload script retains, and a record both retain.
C4_Witness ==
  /\ Filtered("push") /\ Filtered("upload")
  /\ HasKey(filtered_secrets["upload"], <<"N", "O", "D", "E", "_", "E", "N", "V">>)
  /\ filtered_secrets["push"] # <<>>

\* the raw value of a KEY=VALUE line: what follows the first '='
RawValue(rawline) == SplitFirst(StrStrip(rawline, Whitespace), "=")[2]

\* the script has read the first line of the file
FirstLineRead(v) == pc[v] # "off" /\ (pc[v] # "parse" \/ idx[v] > 1)

\* secrets holds the one record JWT_SECRET: value, or nothing for an empty value
ParsedIs(v, value) ==
  IF value = <<>> THEN secrets[v] = <<>>
  ELSE secrets[v] = << << <<"J", "W", "T", "_", "S", "E", "C", "R", "E", "T">>, value >> >>

\* one layer of matching quotes removed, anything else unchanged
OneLayerStripped(raw) ==
  IF Len(raw) >= 2 /\ raw[1] = raw[Len(raw)] /\ raw[1] \in {"\"", "'"}
  THEN SubSeq(raw, 2, Len(raw) - 1)
  ELSE raw

\* s from its first to its last character other than c
Between(s, c) ==
  LET keep == { i \in 1..Len(s) : s[i] # c } IN
  IF keep = {} THEN <<>>
  ELSE SubSeq(s, CHOOSE i \in keep : \A j \in keep : i <= j,
                 CHOOSE i \in keep : \A j \in keep : i >= j)

\* C5 as stated: the parsed value is the raw value without one layer of
\* matching quotes, and the raw value unchanged when it has none.
C5_OneLayerOfMatchingQuotes ==
  \A v \in Variants :
    FirstLineRead(v) => ParsedIs(v, OneLayerStripped(RawValue(env_file[1])))

\* C5 amended: the parsed value is the raw value without all its leading and
\* trailing double quotes and then without all its leading and trailing single
\* quotes, matched or not.
C5_AllEdgeQuotesStripped ==
  \A v \in Variants :
    FirstLineRead(v) => ParsedIs(v, Between(Between(RawValue(env_file[1]), "\""), "'"))

\* C5 witness: the line JWT_SECRET='a' has been read and parsed to a.
C5_Witness ==
  \E v \in Variants :
    /\ FirstLineRead(v)
    /\ RawValue(env_file[1]) = <<"'", "a", "'">>
    /\ secrets[v] = << << <<"J", "W", "T", "_", "S", "E", "C", "R", "E", "T">>, <<"a">> >> >>

\* the printed lines of a script with a tag, as <<key, text>>
Printed(v, tag) ==
  { <<stdout[v][i][2], stdout[v][i][3]>> :
      i \in { j \in 1..Len(stdout[v]) : stdout[v][j][1] = tag } }

\* C6: a parsed record is retained if and only if its key is an important key
\* of the script or starts with an API prefix; no other key is uploaded by the
\* push script or printed by the upload script.
C6_RetainedIffAllowListed ==
  /\ \A v \in Variants :
       /\ \A it \in ItemSet(filtered_secrets[v]) :
            it \in ItemSet(secrets[v]) /\ (IsImportant(v, it[1]) \/ HasApiPrefix(it[1]))
       /\ Filtered(v) =>
            \A it \in ItemSet(secrets[v]) :
              IsImportant(v, it[1]) \/ HasApiPrefix(it[1]) =>
                it \in ItemSet(filtered_secrets[v])
  /\ \A i \in 1..Len(calls) :
       IsImportant("push", calls[i].key) \/ HasApiPrefix(calls[i].key)
  /\ \A p \in Printed("upload", "masked") \cup Printed("upload", "plain") :
       IsImportant("upload", p[1]) \/ HasApiPrefix(p[1])

\* C6 witness: the upload script has finished on a file with RANDOM_VAR, which
\* it dropped, and with an important key and a prefixed key, which it printed.
C6_Witness ==
  /\ pc["upload"] = "done"
  /\ HasKey(secrets["upload"], <<"R", "A", "N", "D", "O", "M", "_", "V", "A", "R">>)
  /\ \E p \in Printed("upload", "plain") : p[1] = <<"N", "O", "D", "E", "_", "E", "N", "V">>
  /\ \E p \in Printed("upload", "plain") : p[1] = <<"G", "R", "O", "Q", "_", "A", "P", "I", "_", "K", "E", "Y", "_", "1">>

\* a placeholder value: empty, or starting with your or sk_test
IsPlaceholder(value) ==
  \/ value = <<>>
  \/ StartsWith(value, <<"y", "o", "u", "r">>)
  \/ StartsWith(value, <<"s", "k", "_", "t", "e", "s", "t">>)

\* C7: no record with a placeholder value is kept, whatever its key: no value
\* in secrets or filtered_secrets, passed to a call or printed is empty or
\* starts with your or sk_test.
C7_NoPlaceholderValueActedOn ==
  /\ \A v \in Variants :
       \A it \in ItemSet(secrets[v]) \cup ItemSet(filtered_secrets[v]) :
         ~IsPlaceholder(it[2])
  /\ \A i \in 1..Len(calls) : ~IsPlaceholder(calls[i].value)
  /\ \A p \in Printed("upload", "plain") : ~IsPlaceholder(p[2])

\* C7 witness: the push script has finished on a file with an sk_test value
\* and a your value under allow-listed keys, and made a call for another line.
C7_Witness ==
  /\ pc["push"] = "done"
  /\ \E i \in 1..Len(env_file) : env_file[i] = LineSkTest
  /\ \E i \in 1..Len(env_file) : env_file[i] = LineJwtYour
  /\ Len(calls) = 1

\* a line of the file is a KEY=VALUE line
IsEntry(rawline) == IsEntryLine(StrStrip(rawline, Whitespace))

\* the key of a KEY=VALUE line
EntryKey(rawline) == SplitFirst(StrStrip(rawline, Whitespace), "=")[1]

\* the quote-stripped value of a KEY=VALUE line
EntryValue(rawline) == StripQuotes(RawValue(rawline))

\* the lines of the file where a key occurs
Occurrences(key) ==
  { i \in 1..Len(env_file) : IsEntry(env_file[i]) /\ EntryKey(env_file[i]) = key }

\* the occurrences of a key whose value is no placeholder
Passing(key) == { i \in Occurrences(key) : ~IsPlaceholder(EntryValue(env_file[i])) }

Last(S) == CHOOSE i \in S : \A j \in S : j <= i

\* what a script has acted on, as <<key, value>>: the calls of the push
\* script, the KEY=VALUE lines printed by the upload script
ActedOn(v) ==
  IF v = "push" THEN { <<calls[i].key, calls[i].value>> : i \in 1..Len(calls) }
  ELSE Printed("upload", "plain")

\* each key the finished script acted on, it acted on once
ActedOnce(v) ==
  pc[v] = "done" =>
    IF v = "push"
    THEN \A a \in ActedOn(v) : Cardinality(CallsFor(a[1])) = 1
    ELSE Len(SelectSeq(stdout[v], LAMBDA l : l[1] = "plain")) = Cardinality(ActedOn(v))

\* C8 as stated: for a key on more than one KEY=VALUE line, the value acted on
\* is the value of its last occurrence in the file, and it is acted on once.
C8_LastOccurrenceWins ==
  \A v \in Variants :
    /\ \A a \in ActedOn(v) :
         Cardinality(Occurrences(a[1])) > 1 =>
           a[2] = EntryValue(env_file[Last(Occurrences(a[1]))])
    /\ ActedOnce(v)

\* C8 amended: for a key on more than one KEY=VALUE line, the value acted on
\* is the value of its last occurrence whose quote-stripped value is no
\* placeholder (a later placeholder occurrence does not overwrite it), and the
\* key is acted on once.
C8_LastPassingOccurrenceWins ==
  \A v \in Variants :
    /\ \A a \in ActedOn(v) :
         /\ Passing(a[1]) # {}
         /\ a[2] = EntryValue(env_file[Last(Passing(a[1]))])
    /\ ActedOnce(v)

\* C8 witness: the push script has finished on a file where a key occurs with
\* two different values and then with a placeholder; the call carried the
\* second value.
C8_Witness ==
  /\ pc["push"] = "done"
  /\ env_file = <<LineJwtShort, LineJwtOther, LineJwtYour>>
  /\ Len(calls) = 1
  /\ calls[1].value = EntryValue(LineJwtOther)

GroqKey == <<"G", "R", "O", "Q", "_", "A", "P", "I", "_", "K", "E", "Y", "_", "1">>
GroqValue == <<"s", "k", "_", "l", "i", "v", "e", "_", "a", "b", "c", "1", "2", "3", "x", "y", "z", "7", "8", "9">>

\* the file holds the line GROQ_API_KEY_1="sk_live_abc123xyz789"
HasGroqLine == \E i \in 1..Len(env_file) : env_file[i] = LineGroq

\* the line is retained by the push script, and a call for it that returned is
\* confirmed with the masked text
GroqRetainedAndMaskedAs(text) ==
  /\ HasGroqLine /\ Filtered("push") =>
       <<GroqKey, GroqValue>> \in ItemSet(filtered_secrets["push"])
  /\ \A i \in 1..Len(calls) :
       calls[i].key = GroqKey /\ calls[i].outcome = "ok" =>
         <<GroqKey, text>> \in Printed("push", "ok")
  /\ \A p \in Printed("push", "ok") : p[1] = GroqKey => p[2] = text

\* C9 as stated: the line is retained and displayed masked as sk_liv...9789.
C9_MaskedAs9789 == GroqRetainedAndMaskedAs(<<"s", "k", "_", "l", "i", "v", ".", ".", ".", "9", "7", "8", "9">>)

\* C9 amended: the line is retained and displayed masked as sk_liv...z789,
\* which is value[0:6] + "..." + value[-4:].
C9_MaskedAsZ789 == GroqRetainedAndMaskedAs(<<"s", "k", "_", "l", "i", "v", ".", ".", ".", "z", "7", "8", "9">>)

\* C9 witness: the call for the line returned and its confirmation is printed.
C9_Witness ==
  /\ HasGroqLine
  /\ \E i \in 1..Len(calls) : calls[i].key = GroqKey /\ calls[i].outcome = "ok"
  /\ <<GroqKey, <<"s", "k", "_", "l", "i", "v", ".", ".", ".", "z", "7", "8", "9">>>> \in Printed("push", "ok")

\* C10: every masked preview omits at least one character of the value: the
\* characters shown around the '...' are fewer than the value has.
C10_MaskOmitsACharacter ==
  /\ \A p \in Printed("push", "ok") :
       Len(p[2]) - Len(Dots) < Len(Get(filtered_secrets["push"], p[1]))
  /\ \A p \in Printed("upload", "masked") :
       Len(p[2]) - Len(Dots) < Len(Get(filtered_secrets["upload"], p[1]))

====
